---- MODULE Spec2Model ----
(***************************************************************************)
(* SAT toolkit: the search engines of SATSOLverOPtimsed2.cpp ("2") and     *)
(* SATSolverOverOptmised.cpp ("Over"), the SAT -> 3-SAT reducer of         *)
(* reductionSAT_3SAT.cpp and the verifier of SATVerifcator.cpp.            *)
(*                                                                         *)
(* A literal is its DIMACS integer (Lit::toInt): variable Abs(l), sign     *)
(* l > 0.  A clause is a sequence of literals, a formula a sequence of     *)
(* clauses.  An assignment is the pair (values, trail) of struct           *)
(* Assignment: values[v] is -1 (unset), 0 (false) or 1 (true).             *)
(***************************************************************************)
EXTENDS Integers, Sequences, FiniteSets, TLC

VARIABLES
    engine,      \* which solve() runs: naive2, moms2, cdcl2, naiveOver, momsOver, cdclOver
    numVars,     \* declared variable count N of the formula being solved
    clauses,     \* the formula being solved
    values,      \* Assignment::values (index 0 of the vector is unused and left out)
    trail,       \* Assignment::trail
    activity,    \* FastCDCLSolver::activity
    varInc,      \* FastCDCLSolver::varInc, in units of 1/actScale
    conflicts,   \* local counter of FastCDCLSolver::solve
    decisions,   \* local counter of FastCDCLSolver::solve
    maxDecisions,\* the decision cap of FastCDCLSolver::solve
    restarts,    \* the values of conflicts at which the restarts so far fired
    watches,     \* FastCDCLSolver::watches (Over), indexed by litToIdx
    stack,       \* call stack of the recursive dpll: frames [var, phase]
    pc,          \* "call" / "ret" (dpll), "loop" (CDCL), "done", "off"
    result,      \* the bool returned by solve (meaningful when pc = "done")
    exitPath,    \* which return statement of solve produced result
    round,       \* 1: first formula of the driver, 2: the formula solved after it
    firstResult, \* result of round 1, kept by the driver
    firstExit,   \* exitPath of round 1
    original,    \* input of SATto3SATReducer::reduce: [numVars, clauses]
    nextAuxVar,  \* SATto3SATReducer::nextAuxVar
    reduced,     \* reduced.clauses under construction
    rpos,        \* index of the next clause of original.clauses to reduce
    stats,       \* ReductionStats (integer fields)
    rpc,         \* "idle", "clauses", "finish", "done", "off"
    solution3SAT,\* the v-line of a solution of the reduced formula
    solutionSAT, \* the v-line written by SolutionConverter::convertSolution
    rcall,       \* which call of reduce the reducer object is in: 1, 2, 3
    previous,    \* the formulas given to the earlier calls of reduce, in order
    firstOutput, \* what the first call of reduce returned: [numVars, clauses]
    instance,    \* CNFInstance given to SATVerifier::verify: [numVars, clauses]
    solution,    \* Solution::assignment of verify's argument (index 0 left out)
    unsatisfiedIndices, \* local vector of verify, indices counted from 0
    unsatisfiedClauses, \* local counter of verify
    satisfiedClauses,   \* local counter of verify
    vpos,        \* loop index i of verify, counted from 0
    vpc,         \* "loop", "done", "off"
    isSat,       \* the bool returned by verify (meaningful when vpc = "done")
    lastCall,    \* the last call made on a bare Assignment: [op, var, value, before]
    timeoutSeconds, \* TimeoutManager::timeoutSeconds
    checkCounter,   \* TimeoutManager::checkCounter
    clock,       \* ticks of high_resolution_clock since TimeoutManager::startTime
    tpc,         \* "running", "timeout" (check threw), "returned", "off"
    file,        \* the lines of the DIMACS file given to CNFParser::parse
    ppos,        \* how many lines of the file getline has returned
    parsed,      \* what parse has built so far: [numVars, clauses]
    ppc          \* "lines", "done", "off"

solverVars == <<engine, numVars, clauses, values, trail, activity, varInc,
                conflicts, decisions, maxDecisions, restarts, watches, stack,
                pc, result, exitPath, round, firstResult, firstExit>>
reducerVars == <<original, nextAuxVar, reduced, rpos, stats, rpc>>
converterVars == <<solution3SAT, solutionSAT>>
historyVars == <<rcall, previous, firstOutput>>
verifierVars == <<instance, solution, unsatisfiedIndices, unsatisfiedClauses,
                  satisfiedClauses, vpos, vpc, isSat>>
apiVars == <<lastCall>>
timeoutVars == <<timeoutSeconds, checkCounter, clock, tpc>>
parserVars == <<file, ppos, parsed, ppc>>
vars == <<solverVars, reducerVars, converterVars, historyVars, verifierVars,
          apiVars, timeoutVars, parserVars>>

(***************************************************************************)
(* Bounds of the model.                                                    *)
(***************************************************************************)
\* largest declared variable count of a formula given to a solver
MaxVars == 2
\* largest size of a formula given to a solver: clauses + literal occurrences
MaxSize == 5
\* stands for the decision cap of FastCDCLSolver::solve (5000000 / 1000000)
MaxDecisions == 12
\* long runs of the CDCL engines: the decision cap, the largest variable
\* count and clause count of the formulas, the variable count of the
\* formula with a long trail
LongDecisions == 410
LMaxVars == 2
LMaxClauses == 3
DeepVars == 6
\* largest declared variable count of a formula given to the reducer
RMaxVars == 1
\* largest size of a formula given to the reducer
RMaxSize == 6
\* a reducer object used for several files: largest declared variable count
HMaxVars == 2
\* ... largest size of the formula of its first and last call
HMaxSize == 5
\* ... largest size of the formula reduced in between
GMaxSize == 2
\* largest size of a formula whose reduction is solved and converted back
CMaxSize == 5
\* a bare Assignment: largest variable count, longest trail
AMaxVars == 2
AMaxTrail == 3
\* largest declared variable count of an instance given to the verifier
VMaxVars == 1
\* largest size of an instance given to the verifier with any clauses
VMaxSize == 4
\* largest clause count of an instance of unit clauses given to the verifier
VMaxClauses == 12

(***************************************************************************)
(* Literals, clauses, formulas.                                            *)
(***************************************************************************)
Abs(x) == IF x < 0 THEN -x ELSE x

LitVar(lit) == Abs(lit)

LitSign(lit) == lit > 0

Lits(n) == {l \in (-n)..n : l # 0}

RECURSIVE SeqSum(_)
SeqSum(s) == IF s = <<>> THEN 0 ELSE Head(s) + SeqSum(Tail(s))

\* the clauses obtained by cutting the literal sequence flat into pieces of
\* the lengths lens
Split(flat, lens) ==
    [i \in 1..Len(lens) |->
        SubSeq(flat, SeqSum(SubSeq(lens, 1, i - 1)) + 1,
                     SeqSum(SubSeq(lens, 1, i)))]

\* every formula over variables 1..n with m clauses and t literal occurrences
FormulasOfShape(n, m, t) ==
    {Split(flat, lens) :
        flat \in [1..t -> Lits(n)],
        lens \in {l \in [1..m -> 0..t] : SeqSum(l) = t}}

\* every formula over variables 1..n of size (clauses + literals) at most size
Formulas(n, size) ==
    UNION {FormulasOfShape(n, sh[1], sh[2]) :
              sh \in {s \in (0..size) \X (0..size) :
                         s[1] + s[2] <= size /\ (s[1] = 0 => s[2] = 0)}}

(***************************************************************************)
(* struct Clause / struct Assignment                                       *)
(***************************************************************************)
contains(vals, var) == var \in DOMAIN vals /\ vals[var] # -1

getValue(vals, var) == vals[var] = 1

\* a literal counted as true as soon as its variable is set
LitTrueAnySign(vals, lit) == contains(vals, LitVar(lit))

\* assignment.contains(lit.var) && assignment.getValue(lit.var) == lit.sign
LitTrue(vals, lit) ==
    contains(vals, LitVar(lit)) /\ (getValue(vals, LitVar(lit)) = LitSign(lit))

isSatisfied(clause, vals) == \E i \in DOMAIN clause : LitTrue(vals, clause[i])

verifySolution(cls, vals) == \A i \in DOMAIN cls : isSatisfied(cls[i], vals)

\* NaiveSolver::isSatisfied / MOMSSolver::isSatisfied of the Over file
isSatisfiedOver(cls, vals) ==
    \A i \in DOMAIN cls : \E j \in DOMAIN cls[i] : LitTrue(vals, cls[i][j])

\* Assignment::assign overwriting the value of a set variable
assignOverwrite(a, var, value) ==
    IF var \notin DOMAIN a.values THEN a
    ELSE IF a.values[var] = -1
         THEN [a EXCEPT !.values[var] = IF value THEN 1 ELSE 0,
                        !.trail = Append(@, var)]
         ELSE [a EXCEPT !.values[var] = IF value THEN 1 ELSE 0]

\* Assignment::assign of the 2 file: a set variable is left alone
assign(a, var, value) ==
    IF var \notin DOMAIN a.values THEN a
    ELSE IF a.values[var] = -1
         THEN [a EXCEPT !.values[var] = IF value THEN 1 ELSE 0,
                        !.trail = Append(@, var)]
         ELSE a

\* Assignment::assign of the Over file: no test of the current value
assignOver(a, var, value) ==
    IF var \notin DOMAIN a.values THEN a
    ELSE [a EXCEPT !.values[var] = IF value THEN 1 ELSE 0,
                   !.trail = Append(@, var)]

\* Assignment::unassign leaving the value in place
unassignKeepsValue(a, var) == a

\* Assignment::unassign: values[var] = -1, the trail left alone
unassign(a, var) ==
    IF var \notin DOMAIN a.values THEN a
    ELSE [a EXCEPT !.values[var] = -1]

\* Assignment::backtrackTo popping the trail without unsetting the variables
RECURSIVE backtrackToKeepValues(_, _)
backtrackToKeepValues(a, position) ==
    IF Len(a.trail) > position
    THEN backtrackToKeepValues([a EXCEPT !.trail = SubSeq(@, 1, Len(@) - 1)],
                               position)
    ELSE a

RECURSIVE backtrackTo(_, _)
backtrackTo(a, position) ==
    IF Len(a.trail) > position
    THEN backtrackTo([unassign(a, a.trail[Len(a.trail)])
                         EXCEPT !.trail = SubSeq(@, 1, Len(@) - 1)], position)
    ELSE a

IsOver(e) == e \in {"naiveOver", "momsOver", "cdclOver"}

\* the assign of the file the engine e lives in
Assign(e, a, var, value) ==
    IF IsOver(e) THEN assignOver(a, var, value) ELSE assign(a, var, value)

\* the all-clauses-satisfied test of the dpll of the file the engine e lives in
DpllSatisfied(e, cls, vals) ==
    IF IsOver(e) THEN isSatisfiedOver(cls, vals) ELSE verifySolution(cls, vals)

(***************************************************************************)
(* NaiveSolver / MOMSSolver: the recursive dpll, one action per step of    *)
(* the recursion.  A frame [var, phase] is a dpll call that has assigned   *)
(* var (phase 1: true, phase 2: false) and waits for its recursive call;   *)
(* its field entry records the values the call was entered with.           *)
(* A recursive call returning true makes every caller return true at once, *)
(* so the stack is dropped when the verdict is SAT.                        *)
(***************************************************************************)
DpllEngines == {"naive2", "moms2", "naiveOver", "momsOver"}

CdclEngines == {"cdcl2", "cdclOver"}

\* firstUnset with the scan stopping one variable early (i < numVars)
firstUnsetShort(vals, n) ==
    IF \E i \in 1..(n - 1) : ~contains(vals, i)
    THEN CHOOSE i \in 1..(n - 1) :
            ~contains(vals, i) /\ \A k \in 1..(i - 1) : contains(vals, k)
    ELSE -1

\* NaiveSolver::dpll: the least-indexed unset variable, -1 when there is none
firstUnset(vals, n) ==
    IF \E i \in 1..n : ~contains(vals, i)
    THEN CHOOSE i \in 1..n :
            ~contains(vals, i) /\ \A k \in 1..(i - 1) : contains(vals, k)
    ELSE -1

\* litCount[lit] of selectVariableMOMS: occurrences of lit, its variable
\* unset, in the clauses no literal of which is true
litCount(cls, vals, lit) ==
    Cardinality({p \in UNION {{<<i, j>> : j \in DOMAIN cls[i]} : i \in DOMAIN cls} :
                    /\ ~isSatisfied(cls[p[1]], vals)
                    /\ cls[p[1]][p[2]] = lit
                    /\ ~contains(vals, LitVar(lit))})

\* selectVariableMOMS: the variables it can return.  bestLit is the first
\* literal of maximal count in the iteration order of the unordered_map,
\* an order the language leaves unspecified: any literal of maximal count.
selectVariableMOMS(cls, vals) ==
    LET all  == Lits(Len(vals))
        cand == {l \in all : litCount(cls, vals, l) > 0}
        best == {l \in cand : \A k \in cand :
                    litCount(cls, vals, k) <= litCount(cls, vals, l)}
    IN  IF cand = {} THEN {-1} ELSE {Abs(l) : l \in best}

\* the variables the dpll of engine e can branch on
DpllSelect(e, cls, vals, n) ==
    IF e \in {"naive2", "naiveOver"} THEN {firstUnset(vals, n)}
    ELSE selectVariableMOMS(cls, vals)

Asg == [values |-> values, trail |-> trail]

cdclUnchanged ==
    UNCHANGED <<activity, varInc, conflicts, decisions, restarts, watches>>
inputUnchanged ==
    UNCHANGED <<engine, numVars, clauses, maxDecisions, round, firstResult,
                firstExit>>
otherUnchanged ==
    UNCHANGED <<reducerVars, converterVars, historyVars, verifierVars, apiVars,
                timeoutVars, parserVars>>

\* dpll entered with every clause satisfied: return true, up to solve
DpllSat ==
    /\ pc = "call" /\ engine \in DpllEngines
    /\ DpllSatisfied(engine, clauses, values)
    /\ pc' = "done" /\ result' = TRUE /\ exitPath' = "dpll"
    /\ stack' = <<>>
    /\ UNCHANGED <<values, trail>>
    /\ cdclUnchanged /\ inputUnchanged /\ otherUnchanged

\* dpll entered, not satisfied, nothing to branch on: return false
DpllNoVar ==
    /\ pc = "call" /\ engine \in DpllEngines
    /\ ~DpllSatisfied(engine, clauses, values)
    /\ -1 \in DpllSelect(engine, clauses, values, numVars)
    /\ pc' = "ret"
    /\ UNCHANGED <<values, trail, stack, result, exitPath>>
    /\ cdclUnchanged /\ inputUnchanged /\ otherUnchanged

\* dpll entered, not satisfied: assign(var, true) and recurse
DpllBranchTrue ==
    /\ pc = "call" /\ engine \in DpllEngines
    /\ ~DpllSatisfied(engine, clauses, values)
    /\ \E var \in DpllSelect(engine, clauses, values, numVars) :
          /\ var # -1
          /\ LET a == Assign(engine, Asg, var, TRUE)
             IN  values' = a.values /\ trail' = a.trail
          /\ stack' = Append(stack, [var |-> var, phase |-> 1,
                                     entry |-> values])
    /\ pc' = "call"
    /\ UNCHANGED <<result, exitPath>>
    /\ cdclUnchanged /\ inputUnchanged /\ otherUnchanged

\* the recursive call under var = true returned false:
\* unassign(var); assign(var, false) and recurse
DpllRetryFalse ==
    /\ pc = "ret" /\ engine \in DpllEngines
    /\ stack # <<>> /\ stack[Len(stack)].phase = 1
    /\ LET var == stack[Len(stack)].var
           a   == Assign(engine, unassign(Asg, var), var, FALSE)
       IN  values' = a.values /\ trail' = a.trail
    /\ stack' = [stack EXCEPT ![Len(stack)].phase = 2]
    /\ pc' = "call"
    /\ UNCHANGED <<result, exitPath>>
    /\ cdclUnchanged /\ inputUnchanged /\ otherUnchanged

\* the recursive call under var = false returned false:
\* unassign(var); return false to the caller
DpllReturnFalse ==
    /\ pc = "ret" /\ engine \in DpllEngines
    /\ stack # <<>> /\ stack[Len(stack)].phase = 2
    /\ LET a == unassign(Asg, stack[Len(stack)].var)
       IN  values' = a.values /\ trail' = a.trail
    /\ stack' = SubSeq(stack, 1, Len(stack) - 1)
    /\ pc' = "ret"
    /\ UNCHANGED <<result, exitPath>>
    /\ cdclUnchanged /\ inputUnchanged /\ otherUnchanged

\* the outermost dpll returned false: solve returns {false, assignment}
DpllUnsat ==
    /\ pc = "ret" /\ engine \in DpllEngines
    /\ stack = <<>>
    /\ pc' = "done" /\ result' = FALSE /\ exitPath' = "dpll"
    /\ UNCHANGED <<values, trail, stack>>
    /\ cdclUnchanged /\ inputUnchanged /\ otherUnchanged

DpllNext ==
    \/ DpllSat
    \/ DpllNoVar
    \/ DpllBranchTrue
    \/ DpllRetryFalse
    \/ DpllReturnFalse
    \/ DpllUnsat

(***************************************************************************)
(* FastCDCLSolver.  Activities are doubles in the code; here activity and  *)
(* varInc are integers in a common unit: a bump adds varInc, and a decay   *)
(* (varInc /= 0.95, that is varInc * 20/19) multiplies every activity by   *)
(* 19 and varInc by 20, which keeps every comparison of two activities.    *)
(* The rescaling by 1e-100 of bumpActivity needs an activity above 1e100,  *)
(* which no run of at most MaxDecisions iterations produces.               *)
(***************************************************************************)
\* conflicts between two decays, 2 file
DecayStride2 == 100
\* conflicts between two decays, Over file
DecayStrideOver == 50
\* restart threshold of the Over file
RestartOver == 100
\* restart threshold base and growth divisor of the 2 file
RestartBase2 == 200
RestartDiv2 == 1000
\* the 2 file backtracks by this many trail entries on a conflict
BacktrackStep2 == 5

litToIdx(lit) == IF lit > 0 THEN 2 * lit ELSE 2 * (-lit) + 1

RECURSIVE initWatchesFrom(_, _, _)
initWatchesFrom(cls, i, w) ==
    IF i > Len(cls) THEN w
    ELSE LET c  == cls[i]
             w1 == IF Len(c) >= 1
                   THEN [w EXCEPT ![litToIdx(c[1])] = Append(@, i)] ELSE w
             w2 == IF Len(c) >= 2
                   THEN [w1 EXCEPT ![litToIdx(c[2])] = Append(@, i)] ELSE w1
         IN  initWatchesFrom(cls, i + 1, w2)

initWatches(cls, n) == initWatchesFrom(cls, 1, [idx \in 0..(2 * n + 1) |-> <<>>])

bumpActivity(st, var) ==
    IF var \notin DOMAIN st.activity THEN st
    ELSE [st EXCEPT !.activity[var] = @ + st.varInc]

decayActivities(act, inc) ==
    [activity |-> [v \in DOMAIN act |-> 19 * act[v]], varInc |-> 20 * inc]

\* the literal loop of unitPropagation and of propagate over one clause: it
\* stops at the first true literal and counts the unset literal positions
RECURSIVE scanLiterals(_, _, _, _)
scanLiterals(clause, vals, i, acc) ==
    IF i > Len(clause) THEN acc
    ELSE LET lit == clause[i]
         IN  IF contains(vals, LitVar(lit))
             THEN IF getValue(vals, LitVar(lit)) = LitSign(lit)
                  THEN [acc EXCEPT !.satisfied = TRUE]
                  ELSE scanLiterals(clause, vals, i + 1, acc)
             ELSE scanLiterals(clause, vals, i + 1,
                      [acc EXCEPT !.unassignedLit = lit,
                                  !.unassignedCount = @ + 1])

scanClause(clause, vals) ==
    scanLiterals(clause, vals, 1,
        [satisfied |-> FALSE, unassignedLit |-> 0, unassignedCount |-> 0])

\* the unit step shared by both propagations: assign the unset literal's
\* variable to the literal's sign and bump it
propagateUnit(e, st, lit) ==
    LET a == Assign(e, [values |-> st.values, trail |-> st.trail],
                    LitVar(lit), LitSign(lit))
    IN  bumpActivity([st EXCEPT !.values = a.values, !.trail = a.trail],
                     LitVar(lit))

\* unitPropagation (2 file): one pass of the for loop over the clauses
RECURSIVE unitPass(_, _, _)
unitPass(cls, i, st) ==
    IF i > Len(cls) THEN st
    ELSE IF isSatisfied(cls[i], st.values) THEN unitPass(cls, i + 1, st)
    ELSE LET s == scanClause(cls[i], st.values)
         IN  IF ~s.satisfied /\ s.unassignedCount = 0
             THEN [st EXCEPT !.conflict = TRUE]
             ELSE IF s.unassignedCount = 1
             THEN unitPass(cls, i + 1,
                      [propagateUnit("cdcl2", st, s.unassignedLit)
                          EXCEPT !.changed = TRUE])
             ELSE unitPass(cls, i + 1, st)

\* unitPropagation (2 file): passes until nothing changes or a conflict
RECURSIVE unitPropagation(_, _)
unitPropagation(cls, st) ==
    LET r == unitPass(cls, 1, [st EXCEPT !.changed = FALSE])
    IN  IF r.conflict THEN r
        ELSE IF r.changed THEN unitPropagation(cls, r)
        ELSE r

\* propagate (Over file): the for loop over the watch list wl of one literal
RECURSIVE propagateWatchList(_, _, _, _)
propagateWatchList(cls, wl, i, st) ==
    IF i > Len(wl) THEN st
    ELSE LET s == scanClause(cls[wl[i]], st.values)
         IN  IF s.satisfied THEN propagateWatchList(cls, wl, i + 1, st)
             ELSE IF s.unassignedCount = 0 THEN [st EXCEPT !.conflict = TRUE]
             ELSE IF s.unassignedCount = 1
             THEN propagateWatchList(cls, wl, i + 1,
                      [propagateUnit("cdclOver", st, s.unassignedLit)
                          EXCEPT !.queue = Append(@, -s.unassignedLit)])
             ELSE propagateWatchList(cls, wl, i + 1, st)

\* propagate (Over file): the while loop over propQueue
RECURSIVE propagateQueue(_, _, _)
propagateQueue(cls, w, st) ==
    IF st.queue = <<>> THEN st
    ELSE LET falseLit == Head(st.queue)
             r == propagateWatchList(cls, w[litToIdx(falseLit)], 1,
                                     [st EXCEPT !.queue = Tail(@)])
         IN  IF r.conflict THEN r ELSE propagateQueue(cls, w, r)

\* propagate (Over file): the queue starts with the literal made false by
\* the last trail entry
propagate(cls, w, st) ==
    propagateQueue(cls, w,
        [st EXCEPT !.queue =
            IF st.trail = <<>> THEN <<>>
            ELSE LET var == st.trail[Len(st.trail)]
                 IN  <<IF getValue(st.values, var) THEN -var ELSE var>>])

\* the loop of selectVariable from variable i on, a later variable of equal
\* activity replacing the best one (activity[i] >= bestScore)
RECURSIVE scanVariablesLastTie(_, _, _, _, _)
scanVariablesLastTie(vals, act, n, i, best) ==
    IF i > n THEN best
    ELSE IF ~contains(vals, i) /\ act[i] >= best.bestScore
         THEN scanVariablesLastTie(vals, act, n, i + 1,
                                   [bestVar |-> i, bestScore |-> act[i]])
         ELSE scanVariablesLastTie(vals, act, n, i + 1, best)

\* selectVariable with ties going to the highest index
selectVariableLastTie(vals, act, n) ==
    scanVariablesLastTie(vals, act, n, 1,
                         [bestVar |-> -1, bestScore |-> -1]).bestVar

\* the loop of selectVariable from variable i on:
\* if (!assignment.contains(i) && activity[i] > bestScore)
RECURSIVE scanVariables(_, _, _, _, _)
scanVariables(vals, act, n, i, best) ==
    IF i > n THEN best
    ELSE IF ~contains(vals, i) /\ act[i] > best.bestScore
         THEN scanVariables(vals, act, n, i + 1,
                            [bestVar |-> i, bestScore |-> act[i]])
         ELSE scanVariables(vals, act, n, i + 1, best)

\* selectVariable: bestVar = -1, bestScore = -1, then the loop.  Activities
\* are never negative, so the start value -1 is below each of them in any
\* unit.
selectVariable(vals, act, n) ==
    scanVariables(vals, act, n, 1, [bestVar |-> -1, bestScore |-> -1]).bestVar

(***************************************************************************)
(* FastCDCLSolver::solve: one action per iteration of the while loop,      *)
(* split by the path the iteration takes.                                  *)
(***************************************************************************)
\* the state handed to the propagation at the top of an iteration
PropStart ==
    [values |-> values, trail |-> trail, activity |-> activity,
     varInc |-> varInc, queue |-> <<>>, changed |-> FALSE, conflict |-> FALSE]

\* unitPropagation(tm) / propagate(tm) as called by solve
Propagated ==
    IF engine = "cdcl2" THEN unitPropagation(clauses, PropStart)
    ELSE propagate(clauses, watches, PropStart)

\* the conflict branch popping the last trail entry only
conflictBacktrackPosOneEntry(e, size) == size - 1

\* backtrackPos of the conflict branch
conflictBacktrackPos(e, size) ==
    IF e = "cdcl2"
    THEN (IF size - BacktrackStep2 > 0 THEN size - BacktrackStep2 ELSE 0)
    ELSE size \div 2

decayDue(e, c) ==
    IF e = "cdcl2" THEN c % DecayStride2 = 0 ELSE c % DecayStrideOver = 0

restartDue(e, c) ==
    IF e = "cdcl2" THEN c > RestartBase2 * (1 + c \div RestartDiv2)
    ELSE c > RestartOver

\* allAssigned with the test off by one (size() >= numVars - 1)
allAssignedOffByOne(tr, n) == Len(tr) >= n - 1

\* the totality test assignment.size() == numVars of solve
allAssigned(tr, n) == Len(tr) = n

\* polarity of a decision, from the already incremented decision counter
polarity(e, d) == IF e = "cdcl2" THEN d % 2 = 0 ELSE d % 3 # 0

\* the guard of the while loop
InLoop == pc = "loop" /\ engine \in CdclEngines /\ decisions < maxDecisions

\* the while loop ends on the decision cap: return {false, assignment}
CdclCap ==
    /\ pc = "loop" /\ engine \in CdclEngines
    /\ ~(decisions < maxDecisions)
    /\ pc' = "done" /\ result' = FALSE /\ exitPath' = "cap"
    /\ UNCHANGED <<values, trail, activity, varInc, conflicts, decisions,
                   restarts, watches, stack>>
    /\ inputUnchanged /\ otherUnchanged

\* conflict with a trail of at most one entry: return {false, assignment}
CdclConflictUnsat ==
    /\ InLoop
    /\ LET r == Propagated
       IN  /\ r.conflict
           /\ Len(r.trail) <= 1
           /\ values' = r.values /\ trail' = r.trail
           /\ activity' = r.activity /\ varInc' = r.varInc
    /\ decisions' = decisions + 1
    /\ conflicts' = conflicts + 1
    /\ pc' = "done" /\ result' = FALSE /\ exitPath' = "conflict"
    /\ UNCHANGED <<restarts, watches, stack>>
    /\ inputUnchanged /\ otherUnchanged

\* the conflict branch reached before decisions++: the iteration not counted
CdclConflictBacktrackUncounted ==
    /\ InLoop
    /\ LET r  == Propagated
           c  == conflicts + 1
           a1 == backtrackTo([values |-> r.values, trail |-> r.trail],
                             conflictBacktrackPos(engine, Len(r.trail)))
           d  == IF decayDue(engine, c)
                 THEN decayActivities(r.activity, r.varInc)
                 ELSE [activity |-> r.activity, varInc |-> r.varInc]
           a2 == IF restartDue(engine, c) THEN backtrackTo(a1, 0) ELSE a1
       IN  /\ r.conflict
           /\ Len(r.trail) > 1
           /\ values' = a2.values /\ trail' = a2.trail
           /\ activity' = d.activity /\ varInc' = d.varInc
           /\ conflicts' = IF restartDue(engine, c) THEN 0 ELSE c
           /\ restarts' = IF restartDue(engine, c)
                          THEN Append(restarts, c) ELSE restarts
    /\ UNCHANGED decisions
    /\ UNCHANGED <<watches, stack, pc, result, exitPath>>
    /\ inputUnchanged /\ otherUnchanged

\* conflict with a longer trail: backtrack, decay, restart, continue
CdclConflictBacktrack ==
    /\ InLoop
    /\ LET r  == Propagated
           c  == conflicts + 1
           a1 == backtrackTo([values |-> r.values, trail |-> r.trail],
                             conflictBacktrackPos(engine, Len(r.trail)))
           d  == IF decayDue(engine, c)
                 THEN decayActivities(r.activity, r.varInc)
                 ELSE [activity |-> r.activity, varInc |-> r.varInc]
           a2 == IF restartDue(engine, c) THEN backtrackTo(a1, 0) ELSE a1
       IN  /\ r.conflict
           /\ Len(r.trail) > 1
           /\ values' = a2.values /\ trail' = a2.trail
           /\ activity' = d.activity /\ varInc' = d.varInc
           /\ conflicts' = IF restartDue(engine, c) THEN 0 ELSE c
           /\ restarts' = IF restartDue(engine, c)
                          THEN Append(restarts, c) ELSE restarts
    /\ decisions' = decisions + 1
    /\ UNCHANGED <<watches, stack, pc, result, exitPath>>
    /\ inputUnchanged /\ otherUnchanged

\* no conflict, every variable on the trail, every clause satisfied:
\* return {true, assignment}
CdclVerified ==
    /\ InLoop
    /\ LET r == Propagated
       IN  /\ ~r.conflict
           /\ allAssigned(r.trail, numVars)
           /\ verifySolution(clauses, r.values)
           /\ values' = r.values /\ trail' = r.trail
           /\ activity' = r.activity /\ varInc' = r.varInc
    /\ decisions' = decisions + 1
    /\ pc' = "done" /\ result' = TRUE /\ exitPath' = "verified"
    /\ UNCHANGED <<conflicts, restarts, watches, stack>>
    /\ inputUnchanged /\ otherUnchanged

\* no conflict, every variable on the trail, some clause not satisfied.
\* 2 file: backtrack to half the trail and continue (an empty trail returns
\* false).  Over file: falls through to the decision; when selectVariable
\* and the fallback loop find no variable, solve returns
\* {assignment.size() == numVars, assignment}, and otherwise it decides the
\* variable found.
CdclRecheckFail ==
    /\ InLoop
    /\ LET r == Propagated
           a == backtrackTo([values |-> r.values, trail |-> r.trail],
                            Len(r.trail) \div 2)
           var == selectVariable(r.values, r.activity, numVars)
           b == Assign(engine, [values |-> r.values, trail |-> r.trail],
                       var, polarity(engine, decisions + 1))
       IN  /\ ~r.conflict
           /\ allAssigned(r.trail, numVars)
           /\ ~verifySolution(clauses, r.values)
           /\ activity' = r.activity /\ varInc' = r.varInc
           /\ IF engine = "cdcl2"
              THEN IF Len(r.trail) > 0
                   THEN /\ values' = a.values /\ trail' = a.trail
                        /\ UNCHANGED <<pc, result, exitPath>>
                   ELSE /\ values' = r.values /\ trail' = r.trail
                        /\ pc' = "done" /\ result' = FALSE
                        /\ exitPath' = "emptytrail"
              ELSE IF var = -1
                   THEN /\ values' = r.values /\ trail' = r.trail
                        /\ pc' = "done"
                        /\ result' = allAssigned(r.trail, numVars)
                        /\ exitPath' = "novar"
                   ELSE /\ values' = b.values /\ trail' = b.trail
                        /\ UNCHANGED <<pc, result, exitPath>>
    /\ decisions' = decisions + 1
    /\ UNCHANGED <<conflicts, restarts, watches, stack>>
    /\ inputUnchanged /\ otherUnchanged

\* no conflict, the trail shorter than numVars: decide a variable.  When
\* selectVariable and the fallback loop find none, the 2 file returns the
\* verdict of verifySolution and the Over file assignment.size() == numVars.
CdclDecide ==
    /\ InLoop
    /\ LET r   == Propagated
           d   == decisions + 1
           var == selectVariable(r.values, r.activity, numVars)
           a   == Assign(engine, [values |-> r.values, trail |-> r.trail],
                         var, polarity(engine, d))
       IN  /\ ~r.conflict
           /\ ~allAssigned(r.trail, numVars)
           /\ activity' = r.activity /\ varInc' = r.varInc
           /\ decisions' = d
           /\ IF var # -1
              THEN /\ values' = a.values /\ trail' = a.trail
                   /\ UNCHANGED <<pc, result, exitPath>>
              ELSE /\ values' = r.values /\ trail' = r.trail
                   /\ pc' = "done" /\ exitPath' = "novar"
                   /\ result' = IF engine = "cdcl2"
                                THEN verifySolution(clauses, r.values)
                                ELSE allAssigned(r.trail, numVars)
    /\ UNCHANGED <<conflicts, restarts, watches, stack>>
    /\ inputUnchanged /\ otherUnchanged

CdclNext ==
    \/ CdclCap
    \/ CdclConflictUnsat
    \/ CdclConflictBacktrack
    \/ CdclVerified
    \/ CdclRecheckFail
    \/ CdclDecide

(***************************************************************************)
(* The state after construction: solve(clauses, numVars, tm) of a dpll     *)
(* engine about to call dpll, or a FastCDCLSolver(clauses, numVars) about  *)
(* to enter the loop of solve.                                             *)
(***************************************************************************)
\* the solvers, the reducer and the verifier call Assignment from their own
\* code only
NoCall == [op |-> "none"]

\* no TimeoutManager is constructed: the solvers are called without one
TimeoutOff ==
    /\ timeoutSeconds = 0 /\ checkCounter = 0 /\ clock = 0 /\ tpc = "off"

\* the formula is in memory already: no file is parsed
ParserOff ==
    /\ file = <<>> /\ ppos = 0 /\ ppc = "off"
    /\ parsed = [numVars |-> 0, clauses |-> <<>>]

\* no verifier runs in the solver programs and in the reducer program
VerifierOff ==
    /\ instance = [numVars |-> 0, clauses |-> <<>>]
    /\ solution = <<>>
    /\ unsatisfiedIndices = <<>>
    /\ unsatisfiedClauses = 0
    /\ satisfiedClauses = 0
    /\ vpos = 0
    /\ vpc = "off"
    /\ isSat = FALSE

ReducerOff ==
    /\ rcall = 0 /\ previous = <<>> /\ firstOutput = <<>>
    /\ original = [numVars |-> 0, clauses |-> <<>>]
    /\ nextAuxVar = 0
    /\ reduced = <<>>
    /\ rpos = 0
    /\ stats = [originalVars |-> 0]
    /\ rpc = "off"
    /\ solution3SAT = <<>>
    /\ solutionSAT = <<>>

\* the state of a solver of engine e constructed for the formula (n, cls)
SolverStart(e, n, cls) ==
    [values    |-> [v \in 1..n |-> -1],
     trail     |-> <<>>,
     activity  |-> [v \in 1..n |-> 0],
     varInc    |-> 1,
     watches   |-> IF e = "cdclOver" THEN initWatches(cls, n) ELSE <<>>,
     pc        |-> IF e \in DpllEngines THEN "call" ELSE "loop"]

\* main: a formula parsed, and a solver of one of the engines constructed
\* for it; cap stands for the decision cap of FastCDCLSolver::solve
SolverInitWith(engines, cap, inputs) ==
    /\ engine \in engines
    /\ maxDecisions = cap
    /\ restarts = <<>>
    /\ \E f \in inputs : numVars = f.numVars /\ clauses = f.clauses
    /\ LET s == SolverStart(engine, numVars, clauses)
       IN  /\ values = s.values /\ trail = s.trail
           /\ activity = s.activity /\ varInc = s.varInc
           /\ watches = s.watches /\ pc = s.pc
    /\ conflicts = 0
    /\ decisions = 0
    /\ stack = <<>>
    /\ result = FALSE
    /\ exitPath = "none"
    /\ round = 1
    /\ firstResult = FALSE
    /\ firstExit = "none"
    /\ lastCall = NoCall
    /\ TimeoutOff
    /\ ParserOff
    /\ ReducerOff
    /\ VerifierOff

\* the formulas of at most MaxVars variables and of size at most MaxSize
SolverInputs ==
    UNION {[numVars : {n}, clauses : Formulas(n, MaxSize)] : n \in 1..MaxVars}

SolverInit(engines) == SolverInitWith(engines, MaxDecisions, SolverInputs)

DpllInit == SolverInit(DpllEngines)

CdclInit == SolverInit(CdclEngines)

Init == SolverInit(DpllEngines \cup CdclEngines)

Next == DpllNext \/ CdclNext

\* every engine
Spec == Init /\ [][Next]_vars

\* the formulas of at most m unit clauses over the variables 1..n
UnitFormulas(n, m) ==
    UNION {[1..k -> {<<l>> : l \in Lits(n)}] : k \in 0..m}

\* the unit clauses (1), (2), ..., (n), (-1)
DeepUnits(n) == [i \in 1..(n + 1) |-> IF i <= n THEN <<i>> ELSE <<-1>>]

\* p cnf 2 1 / -1 -1 -2 -2 0
RepeatedLiterals == << <<-1, -1, -2, -2>> >>

\* p cnf 2 2 / 1 2 0 / 1 -2 0
TwoBinaryClauses == << <<1, 2>>, <<1, -2>> >>

\* formulas of unit clauses, one whose propagation makes a long trail, one
\* clause whose watched literals are not all its literals, and one whose
\* conflict leaves both variables unset and one of them bumped
LongInputs ==
    UNION {[numVars : {n}, clauses : UnitFormulas(n, LMaxClauses)] :
              n \in 1..LMaxVars}
    \cup {[numVars |-> DeepVars, clauses |-> DeepUnits(DeepVars)],
          [numVars |-> 2, clauses |-> RepeatedLiterals],
          [numVars |-> 2, clauses |-> TwoBinaryClauses]}

LongInit == SolverInitWith(CdclEngines, LongDecisions, LongInputs)

\* the CDCL engines of both files, run for hundreds of iterations
SpecLong == LongInit /\ [][CdclNext]_vars

\* the Naive and MOMS engines of both files
SpecDpll == DpllInit /\ [][DpllNext]_vars

\* the CDCL engines of both files
SpecCdcl == CdclInit /\ [][CdclNext]_vars

\* solve goes on: it runs one more iteration of the while loop, or leaves it
LoopStep ==
    /\ pc = "loop" /\ engine \in CdclEngines
    /\ pc' \in {"loop", "done"}
    /\ decisions' \in {decisions, decisions + 1}

\* ... run to the end: solve is straight-line code in one thread, which
\* does not stop inside the loop
SpecCdclFair ==
    CdclInit /\ [][CdclNext]_vars /\ WF_<<pc, decisions>>(LoopStep)

(***************************************************************************)
(* The driver solves one formula after another with a fresh solver (main   *)
(* of both solver files).  Here the second formula is the first one with   *)
(* the repeated literals of each clause removed.                           *)
(***************************************************************************)
\* clause without the later copies of a literal
RECURSIVE removeDuplicates(_)
removeDuplicates(clause) ==
    IF clause = <<>> THEN <<>>
    ELSE LET init == SubSeq(clause, 1, Len(clause) - 1)
             last == clause[Len(clause)]
         IN  IF \E i \in DOMAIN init : init[i] = last
             THEN removeDuplicates(init)
             ELSE Append(removeDuplicates(init), last)

hasDuplicate(clause) ==
    \E i, j \in DOMAIN clause : i < j /\ clause[i] = clause[j]

NoDuplicates(cls) == \A i \in DOMAIN cls : ~hasDuplicate(cls[i])

\* the driver keeps the verdict and solves the formula without duplicates
SolveDeduplicated ==
    /\ pc = "done" /\ round = 1
    /\ round' = 2
    /\ firstResult' = result /\ firstExit' = exitPath
    /\ clauses' = [i \in DOMAIN clauses |-> removeDuplicates(clauses[i])]
    /\ LET s == SolverStart(engine, numVars, clauses')
       IN  /\ values' = s.values /\ trail' = s.trail
           /\ activity' = s.activity /\ varInc' = s.varInc
           /\ watches' = s.watches /\ pc' = s.pc
    /\ conflicts' = 0 /\ decisions' = 0 /\ stack' = <<>>
    /\ restarts' = <<>>
    /\ result' = FALSE /\ exitPath' = "none"
    /\ UNCHANGED <<engine, numVars, maxDecisions>>
    /\ otherUnchanged

DupInit == Init /\ ~NoDuplicates(clauses)

\* every engine, on a formula with a repeated literal and then without it
SpecDup == DupInit /\ [][Next \/ SolveDeduplicated]_vars

(***************************************************************************)
(* SATto3SATReducer (reductionSAT_3SAT.cpp): one action for the head of    *)
(* reduce, one per branch of its loop over the clauses, one for its tail.  *)
(* The ratios and the elapsed time of ReductionStats are floating-point    *)
(* values that nothing reads back; stats keeps the integer fields.         *)
(***************************************************************************)
\* reduceSize1 taking three auxiliary variables instead of two
reduceSize1Wide(lit, next) ==
    LET y == next
        z == next + 1
    IN  [clauses |-> << <<lit, y, z>>, <<lit, y, -z>>,
                        <<lit, -y, z>>, <<lit, -y, -z>> >>,
         next |-> next + 3]

\* reduceSize1(lit) with nextAuxVar = next: the new clauses, the new counter
reduceSize1(lit, next) ==
    LET y == next
        z == next + 1
    IN  [clauses |-> << <<lit, y, z>>, <<lit, y, -z>>,
                        <<lit, -y, z>>, <<lit, -y, -z>> >>,
         next |-> next + 2]

\* reduceSize2 emitting the auxiliary variable with the same sign twice
reduceSize2SameSign(lit1, lit2, next) ==
    LET y == next
    IN  [clauses |-> << <<lit1, lit2, y>>, <<lit1, lit2, y>> >>,
         next |-> next + 1]

reduceSize2(lit1, lit2, next) ==
    LET y == next
    IN  [clauses |-> << <<lit1, lit2, y>>, <<lit1, lit2, -y>> >>,
         next |-> next + 1]

\* reduceSizeK taking the wrong literal into the middle clauses of the chain
reduceSizeKSwapped(lits, next) ==
    LET k == Len(lits)
        auxVars == [i \in 1..(k - 3) |-> next + i - 1]
    IN  IF k < 4 THEN [clauses |-> <<>>, next |-> next]
        ELSE [clauses |->
                 << <<lits[1], lits[2], auxVars[1]>> >>
                 \o [i \in 1..(k - 4) |->
                        <<-auxVars[i], lits[i + 3], auxVars[i + 1]>>]
                 \o << <<-auxVars[k - 3], lits[k - 1], lits[k]>> >>,
              next |-> next + (k - 3)]

\* reduceSizeK numbering its auxiliary variables one too high
reduceSizeKShifted(lits, next) ==
    LET k == Len(lits)
        auxVars == [i \in 1..(k - 3) |-> next + i]
    IN  IF k < 4 THEN [clauses |-> <<>>, next |-> next]
        ELSE [clauses |->
                 << <<lits[1], lits[2], auxVars[1]>> >>
                 \o [i \in 1..(k - 4) |->
                        <<-auxVars[i], lits[i + 2], auxVars[i + 1]>>]
                 \o << <<-auxVars[k - 3], lits[k - 1], lits[k]>> >>,
              next |-> next + (k - 3)]

reduceSizeK(lits, next) ==
    LET k == Len(lits)
        auxVars == [i \in 1..(k - 3) |-> next + i - 1]
    IN  IF k < 4 THEN [clauses |-> <<>>, next |-> next]
        ELSE [clauses |->
                 << <<lits[1], lits[2], auxVars[1]>> >>
                 \o [i \in 1..(k - 4) |->
                        <<-auxVars[i], lits[i + 2], auxVars[i + 1]>>]
                 \o << <<-auxVars[k - 3], lits[k - 1], lits[k]>> >>,
              next |-> next + (k - 3)]

\* stats.totalLiteralsOriginal / totalLiteralsReduced: the sum of the sizes
RECURSIVE totalLiterals(_)
totalLiterals(cls) ==
    IF cls = <<>> THEN 0 ELSE Len(Head(cls)) + totalLiterals(Tail(cls))

\* getClauseSizeDistribution: size -> number of clauses of that size
getClauseSizeDistribution(cls) ==
    [sz \in {Len(cls[i]) : i \in DOMAIN cls} |->
        Cardinality({i \in DOMAIN cls : Len(cls[i]) = sz})]

\* a step of one call of reduce touches no solver, no verifier and not the
\* record of the reducer's earlier calls
solverUnchanged ==
    UNCHANGED <<solverVars, historyVars, verifierVars, apiVars, timeoutVars,
                parserVars>>

RClause == original.clauses[rpos]

InClauseLoop == rpc = "clauses" /\ rpos <= Len(original.clauses)

\* reduce keeping the counter where the object's previous call left it
ReduceBeginNoRestart ==
    /\ rpc = "idle"
    /\ nextAuxVar' = IF rcall = 1 THEN original.numVars + 1 ELSE nextAuxVar
    /\ stats' = [originalVars |-> original.numVars,
                 originalClauses |-> Len(original.clauses),
                 originalSizeDist |-> getClauseSizeDistribution(original.clauses),
                 totalLiteralsOriginal |-> totalLiterals(original.clauses)]
    /\ reduced' = <<>>
    /\ rpos' = 1
    /\ rpc' = "clauses"
    /\ UNCHANGED <<original, converterVars>>
    /\ solverUnchanged

\* reduce, up to its loop: the counter restarts after the input's variables
ReduceBegin ==
    /\ rpc = "idle"
    /\ nextAuxVar' = original.numVars + 1
    /\ stats' = [originalVars |-> original.numVars,
                 originalClauses |-> Len(original.clauses),
                 originalSizeDist |-> getClauseSizeDistribution(original.clauses),
                 totalLiteralsOriginal |-> totalLiterals(original.clauses)]
    /\ reduced' = <<>>
    /\ rpos' = 1
    /\ rpc' = "clauses"
    /\ UNCHANGED <<original, converterVars>>
    /\ solverUnchanged

\* size == 0: continue, nothing is emitted
ReduceSize0 ==
    /\ InClauseLoop /\ Len(RClause) = 0
    /\ rpos' = rpos + 1
    /\ UNCHANGED <<original, nextAuxVar, reduced, stats, rpc, converterVars>>
    /\ solverUnchanged

ReduceSize1 ==
    /\ InClauseLoop /\ Len(RClause) = 1
    /\ LET r == reduceSize1(RClause[1], nextAuxVar)
       IN  reduced' = reduced \o r.clauses /\ nextAuxVar' = r.next
    /\ rpos' = rpos + 1
    /\ UNCHANGED <<original, stats, rpc, converterVars>>
    /\ solverUnchanged

ReduceSize2 ==
    /\ InClauseLoop /\ Len(RClause) = 2
    /\ LET r == reduceSize2(RClause[1], RClause[2], nextAuxVar)
       IN  reduced' = reduced \o r.clauses /\ nextAuxVar' = r.next
    /\ rpos' = rpos + 1
    /\ UNCHANGED <<original, stats, rpc, converterVars>>
    /\ solverUnchanged

\* size == 3: the clause is copied
ReduceSize3 ==
    /\ InClauseLoop /\ Len(RClause) = 3
    /\ reduced' = Append(reduced, RClause)
    /\ rpos' = rpos + 1
    /\ UNCHANGED <<original, nextAuxVar, stats, rpc, converterVars>>
    /\ solverUnchanged

ReduceSizeK ==
    /\ InClauseLoop /\ Len(RClause) >= 4
    /\ LET r == reduceSizeK(RClause, nextAuxVar)
       IN  reduced' = reduced \o r.clauses /\ nextAuxVar' = r.next
    /\ rpos' = rpos + 1
    /\ UNCHANGED <<original, stats, rpc, converterVars>>
    /\ solverUnchanged

\* reduce, after its loop: the reduced formula's counts and the statistics
ReduceFinish ==
    /\ rpc = "clauses" /\ rpos > Len(original.clauses)
    /\ stats' = [originalVars |-> stats.originalVars,
                 originalClauses |-> stats.originalClauses,
                 originalSizeDist |-> stats.originalSizeDist,
                 totalLiteralsOriginal |-> stats.totalLiteralsOriginal,
                 reducedVars |-> nextAuxVar - 1,
                 reducedClauses |-> Len(reduced),
                 auxVarsAdded |-> (nextAuxVar - 1) - original.numVars,
                 totalLiteralsReduced |-> totalLiterals(reduced)]
    /\ rpc' = "done"
    /\ UNCHANGED <<original, nextAuxVar, reduced, rpos, converterVars>>
    /\ solverUnchanged

ReduceNext ==
    \/ ReduceBegin
    \/ ReduceSize0
    \/ ReduceSize1
    \/ ReduceSize2
    \/ ReduceSize3
    \/ ReduceSizeK
    \/ ReduceFinish

\* no solver runs in the reducer program
SolverOff ==
    /\ engine = "none" /\ numVars = 0 /\ clauses = <<>>
    /\ values = <<>> /\ trail = <<>> /\ activity = <<>> /\ varInc = 1
    /\ conflicts = 0 /\ decisions = 0 /\ watches = <<>> /\ stack = <<>>
    /\ maxDecisions = 0 /\ restarts = <<>>
    /\ pc = "off" /\ result = FALSE /\ exitPath = "none"
    /\ round = 0 /\ firstResult = FALSE /\ firstExit = "none"
    /\ lastCall = NoCall
    /\ TimeoutOff
    /\ ParserOff

\* a reducer object and a parsed formula, before the call of reduce.  The
\* member nextAuxVar has no initial value; reduce writes it before reading.
ReducerStartWith(inputs) ==
    /\ SolverOff
    /\ VerifierOff
    /\ rcall = 1 /\ previous = <<>> /\ firstOutput = <<>>
    /\ original \in inputs
    /\ nextAuxVar = 0
    /\ reduced = <<>>
    /\ rpos = 0
    /\ stats = [originalVars |-> 0]
    /\ rpc = "idle"
    /\ solution3SAT = <<>>
    /\ solutionSAT = <<>>

\* the formulas of at most RMaxVars variables and of the given size
ReducerInputs(size) ==
    UNION {[numVars : {n}, clauses : Formulas(n, size)] : n \in 1..RMaxVars}

ReducerStart(size) == ReducerStartWith(ReducerInputs(size))

ReduceInit == ReducerStart(RMaxSize)

SpecReduce == ReduceInit /\ [][ReduceNext]_vars

(***************************************************************************)
(* main of the reducer program: one SATto3SATReducer object reduces the    *)
(* files of the input directory one after the other.  Three files are      *)
(* followed here, the third with the content of the first.  reduce never   *)
(* looks at the value of a literal, so the files use one variable and      *)
(* differ in their declared variable count and in their clause sizes.      *)
(***************************************************************************)
ReuseInputs(size) ==
    [numVars : 1..HMaxVars, clauses : Formulas(1, size)]

\* the next iteration of main's loop: the next file is parsed; the object,
\* and so its member nextAuxVar, is the one of the previous iteration
ReduceNextFile ==
    /\ rpc = "done" /\ rcall < 3
    /\ rcall' = rcall + 1
    /\ previous' = Append(previous, original)
    /\ IF rcall = 1
       THEN /\ firstOutput' = [numVars |-> stats.reducedVars,
                               clauses |-> reduced]
            /\ original' \in ReuseInputs(GMaxSize)
       ELSE /\ firstOutput' = firstOutput
            /\ original' = previous[1]
    /\ reduced' = <<>>
    /\ rpos' = 0
    /\ stats' = [originalVars |-> 0]
    /\ rpc' = "idle"
    /\ UNCHANGED <<nextAuxVar, converterVars, solverVars, verifierVars, apiVars,
                   timeoutVars, parserVars>>

ReuseInit == ReducerStartWith(ReuseInputs(HMaxSize))

SpecReuse == ReuseInit /\ [][ReduceNext \/ ReduceNextFile]_vars

(***************************************************************************)
(* The solution of the reduced formula brought back to the original one:   *)
(* saveSolutionToFile writes the v-line, SolutionConverter::convertSolution*)
(* filters it, SolutionParser::parse reads it for the verifier.            *)
(***************************************************************************)
\* the v-line saveSolutionToFile writes: the set variables in increasing order
saveSolutionToFile(vals, n) ==
    LET lit(i) == IF getValue(vals, i) THEN i ELSE -i
        RECURSIVE line(_)
        line(i) == IF i > n THEN <<>>
                   ELSE IF contains(vals, i) THEN <<lit(i)>> \o line(i + 1)
                   ELSE line(i + 1)
    IN  line(1)

\* convertSolution: the literals of the v-line whose variable is original
RECURSIVE convertSolution(_, _)
convertSolution(line, originalVars) ==
    IF line = <<>> THEN <<>>
    ELSE IF Abs(Head(line)) <= originalVars
         THEN <<Head(line)>> \o convertSolution(Tail(line), originalVars)
         ELSE convertSolution(Tail(line), originalVars)

\* Solution::setLiteral
setLiteral(assignment, lit) ==
    IF Abs(lit) \in DOMAIN assignment
    THEN [assignment EXCEPT ![Abs(lit)] = IF lit > 0 THEN 1 ELSE 0]
    ELSE assignment

\* SolutionParser::parse of a v-line for numVars variables
RECURSIVE parseLiterals(_, _)
parseLiterals(line, assignment) ==
    IF line = <<>> THEN assignment
    ELSE parseLiterals(Tail(line), setLiteral(assignment, Head(line)))

parseSolution(line, n) == parseLiterals(line, [v \in 1..n |-> -1])

\* a total assignment of the reduced formula's variables that satisfies it
\* is written as a v-line and converted
ConvertSolution ==
    /\ rpc = "done"
    /\ \E A \in [1..stats.reducedVars -> {0, 1}] :
          /\ verifySolution(reduced, A)
          /\ solution3SAT' = saveSolutionToFile(A, stats.reducedVars)
    /\ solutionSAT' = convertSolution(solution3SAT', stats.originalVars)
    /\ rpc' = "converted"
    /\ UNCHANGED <<original, nextAuxVar, reduced, rpos, stats>>
    /\ solverUnchanged

ConvertInit == ReducerStart(CMaxSize)

SpecConvert == ConvertInit /\ [][ReduceNext \/ ConvertSolution]_vars

(***************************************************************************)
(* SATVerifier::verify (SATVerifcator.cpp): one action for the test of the *)
(* empty instance, one per way through the body of the loop over the       *)
(* clauses, one for the construction of the result.                        *)
(***************************************************************************)
\* the size the list of unsatisfied clauses has to exceed for the break
DisplayLimit == 10

\* Clause::isSatisfied treating an unset variable as if it made the literal true
verifierIsSatisfiedLax(clause, asg) ==
    \E j \in DOMAIN clause :
        LET var == Abs(clause[j])
        IN  var <= Len(asg) /\ (asg[var] = -1 \/ (asg[var] = 1) = (clause[j] > 0))

\* Clause::isSatisfied of the verifier; asg is the vector without its index
\* 0, so var < assignment.size() reads var <= Len(asg)
verifierIsSatisfied(clause, asg) ==
    \E j \in DOMAIN clause :
        LET var == Abs(clause[j])
        IN  /\ var <= Len(asg) /\ asg[var] # -1
            /\ (asg[var] = 1) = (clause[j] > 0)

verifierRest ==
    UNCHANGED <<solverVars, reducerVars, converterVars, historyVars, apiVars,
                timeoutVars, parserVars>>

VClause == instance.clauses[vpos + 1]

InVerifyLoop == vpc = "loop" /\ vpos < Len(instance.clauses)

\* if (instance.clauses.empty()) return {true, ...}
VerifyEmptyInstance ==
    /\ vpc = "call" /\ instance.clauses = <<>>
    /\ isSat' = TRUE
    /\ vpc' = "done"
    /\ UNCHANGED <<instance, solution, unsatisfiedIndices, unsatisfiedClauses,
                   satisfiedClauses, vpos>>
    /\ verifierRest

\* the locals are initialised and the loop is entered
VerifyBegin ==
    /\ vpc = "call" /\ instance.clauses # <<>>
    /\ satisfiedClauses' = 0 /\ unsatisfiedClauses' = 0
    /\ unsatisfiedIndices' = <<>>
    /\ vpos' = 0
    /\ vpc' = "loop"
    /\ UNCHANGED <<instance, solution, isSat>>
    /\ verifierRest

VerifySatisfied ==
    /\ InVerifyLoop /\ verifierIsSatisfied(VClause, solution)
    /\ satisfiedClauses' = satisfiedClauses + 1
    /\ vpos' = vpos + 1
    /\ UNCHANGED <<instance, solution, unsatisfiedIndices, unsatisfiedClauses,
                   vpc, isSat>>
    /\ verifierRest

\* an unsatisfied clause whose index is dropped instead of recorded
VerifyUnsatisfiedUnrecorded ==
    /\ InVerifyLoop /\ ~verifierIsSatisfied(VClause, solution)
    /\ Len(unsatisfiedIndices) + 1 <= DisplayLimit
    /\ unsatisfiedClauses' = unsatisfiedClauses + 1
    /\ unsatisfiedIndices' = IF unsatisfiedIndices = <<>>
                             THEN Append(unsatisfiedIndices, vpos)
                             ELSE unsatisfiedIndices
    /\ vpos' = vpos + 1
    /\ UNCHANGED <<instance, solution, satisfiedClauses, vpc, isSat>>
    /\ verifierRest

\* an unsatisfied clause is counted and recorded, the loop goes on
VerifyUnsatisfied ==
    /\ InVerifyLoop /\ ~verifierIsSatisfied(VClause, solution)
    /\ Len(unsatisfiedIndices) + 1 <= DisplayLimit
    /\ unsatisfiedClauses' = unsatisfiedClauses + 1
    /\ unsatisfiedIndices' = Append(unsatisfiedIndices, vpos)
    /\ vpos' = vpos + 1
    /\ UNCHANGED <<instance, solution, satisfiedClauses, vpc, isSat>>
    /\ verifierRest

\* an unsatisfied clause is counted and recorded, and the list has become
\* longer than the limit: break
VerifyUnsatisfiedBreak ==
    /\ InVerifyLoop /\ ~verifierIsSatisfied(VClause, solution)
    /\ Len(unsatisfiedIndices) + 1 > DisplayLimit
    /\ unsatisfiedClauses' = unsatisfiedClauses + 1
    /\ unsatisfiedIndices' = Append(unsatisfiedIndices, vpos)
    /\ vpc' = "break"
    /\ UNCHANGED <<instance, solution, satisfiedClauses, vpos, isSat>>
    /\ verifierRest

\* after the loop: bool isSat = (unsatisfiedClauses == 0)
VerifyReturn ==
    /\ \/ vpc = "loop" /\ vpos = Len(instance.clauses)
       \/ vpc = "break"
    /\ isSat' = (unsatisfiedClauses = 0)
    /\ vpc' = "done"
    /\ UNCHANGED <<instance, solution, unsatisfiedIndices, unsatisfiedClauses,
                   satisfiedClauses, vpos>>
    /\ verifierRest

VerifyNext ==
    \/ VerifyEmptyInstance
    \/ VerifyBegin
    \/ VerifySatisfied
    \/ VerifyUnsatisfied
    \/ VerifyUnsatisfiedBreak
    \/ VerifyReturn

\* instances of nonempty clauses (CNFParser::parse keeps no other) whose
\* literals may name a variable past the declared count, with any solution
\* vector SolutionParser::parse can build
WideInstances ==
    UNION {[numVars : {n},
            clauses : {f \in Formulas(n + 1, VMaxSize) :
                          \A i \in DOMAIN f : f[i] # <<>>}] : n \in 1..VMaxVars}

\* instances of one variable made of unit clauses
LongInstances ==
    [numVars : {1},
     clauses : UNION {[1..m -> {<<1>>, <<-1>>}] : m \in 1..VMaxClauses}]

VerifyInit ==
    /\ SolverOff
    /\ ReducerOff
    /\ \/ /\ instance \in WideInstances
          /\ solution \in [1..instance.numVars -> {-1, 0, 1}]
       \/ /\ instance \in LongInstances
          /\ solution \in [1..instance.numVars -> {0, 1}]
    /\ unsatisfiedIndices = <<>>
    /\ unsatisfiedClauses = 0
    /\ satisfiedClauses = 0
    /\ vpos = 0
    /\ vpc = "call"
    /\ isSat = FALSE

SpecVerify == VerifyInit /\ [][VerifyNext]_vars

(***************************************************************************)
(* struct Assignment on its own: assign, unassign and backtrackTo applied  *)
(* to an Assignment(n) in any order, for the struct of each solver file.   *)
(* The trail of the Over file grows with every assign; calls stop at       *)
(* AMaxTrail entries.                                                      *)
(***************************************************************************)
AssignmentFiles == {"assignment2", "assignmentOver"}

ApiRest ==
    UNCHANGED <<engine, numVars, clauses, activity, varInc, conflicts,
                decisions, maxDecisions, restarts, watches, stack, pc, result,
                exitPath, round, firstResult, firstExit, reducerVars,
                converterVars, historyVars, verifierVars, timeoutVars,
                parserVars>>

ApiAssign ==
    /\ pc = "api" /\ Len(trail) < AMaxTrail
    /\ \E var \in 1..numVars, value \in BOOLEAN :
          LET a == IF engine = "assignmentOver"
                   THEN assignOver(Asg, var, value)
                   ELSE assign(Asg, var, value)
          IN  /\ values' = a.values /\ trail' = a.trail
              /\ lastCall' = [op |-> "assign", var |-> var, value |-> value,
                              before |-> Asg]
    /\ ApiRest

ApiUnassign ==
    /\ pc = "api"
    /\ \E var \in 1..numVars :
          LET a == unassign(Asg, var)
          IN  /\ values' = a.values /\ trail' = a.trail
              /\ lastCall' = [op |-> "unassign", var |-> var, value |-> FALSE,
                              before |-> Asg]
    /\ ApiRest

ApiBacktrackTo ==
    /\ pc = "api"
    /\ \E position \in 0..Len(trail) :
          LET a == backtrackTo(Asg, position)
          IN  /\ values' = a.values /\ trail' = a.trail
              /\ lastCall' = [op |-> "backtrackTo", var |-> position,
                              value |-> FALSE, before |-> Asg]
    /\ ApiRest

ApiNext == ApiAssign \/ ApiUnassign \/ ApiBacktrackTo

\* Assignment(maxVars): every variable unset, the trail empty
AssignmentInit ==
    /\ engine \in AssignmentFiles
    /\ numVars \in 1..AMaxVars
    /\ clauses = <<>>
    /\ values = [v \in 1..numVars |-> -1]
    /\ trail = <<>>
    /\ activity = <<>> /\ varInc = 1
    /\ conflicts = 0 /\ decisions = 0 /\ watches = <<>> /\ stack = <<>>
    /\ maxDecisions = 0 /\ restarts = <<>>
    /\ pc = "api" /\ result = FALSE /\ exitPath = "none"
    /\ round = 0 /\ firstResult = FALSE /\ firstExit = "none"
    /\ lastCall = NoCall
    /\ TimeoutOff
    /\ ParserOff
    /\ ReducerOff
    /\ VerifierOff

SpecAssignment == AssignmentInit /\ [][ApiNext]_vars

(***************************************************************************)
(* TimeoutManager (both solver files; the two classes are the same text).  *)
(* A solve is a sequence of calls of check() on a manager constructed for  *)
(* it by main, ended by a throw of check or by the return of the solver.   *)
(* The clock is counted in ticks, TicksPerSecond of them to the second,    *)
(* from startTime; each call of check happens at a clock reading not       *)
(* earlier than the one of the call before.                                *)
(***************************************************************************)
\* check() reads the clock when the incremented counter is a multiple of this
SampleStride == 10000
\* resolution of the clock of the model
TicksPerSecond == 2
\* latest clock reading, in ticks
TMaxTicks == 4
\* largest deadline, in seconds
TMaxTimeout == 1
\* most calls of check in one solve
TMaxChecks == 20001

\* duration_cast<seconds>: the whole seconds of a duration in ticks
elapsedSeconds(ticks) == ticks \div TicksPerSecond

\* the clock read on every call of check
sampledEveryCall(counter) == counter % 1 = 0

\* ++checkCounter % 10000 == 0
sampled(counter) == counter % SampleStride = 0

\* elapsed > timeoutSeconds
expired(ticks, seconds) == elapsedSeconds(ticks) > seconds

timeoutRest ==
    UNCHANGED <<solverVars, reducerVars, converterVars, historyVars,
                verifierVars, apiVars, parserVars>>

\* check() returning: the counter is not at a sampling value, or the
\* deadline is not exceeded
TimeoutCheck ==
    /\ tpc = "running" /\ checkCounter < TMaxChecks
    /\ checkCounter' = checkCounter + 1
    /\ \E now \in clock..TMaxTicks :
          /\ clock' = now
          /\ ~(sampled(checkCounter') /\ expired(now, timeoutSeconds))
    /\ UNCHANGED <<timeoutSeconds, tpc>>
    /\ timeoutRest

\* check() throwing runtime_error("TIMEOUT"), caught by main
TimeoutThrow ==
    /\ tpc = "running" /\ checkCounter < TMaxChecks
    /\ checkCounter' = checkCounter + 1
    /\ \E now \in clock..TMaxTicks :
          /\ clock' = now
          /\ sampled(checkCounter') /\ expired(now, timeoutSeconds)
    /\ tpc' = "timeout"
    /\ UNCHANGED timeoutSeconds
    /\ timeoutRest

\* the solver returns its verdict: no further call of check
TimeoutSolveReturns ==
    /\ tpc = "running"
    /\ \E now \in clock..TMaxTicks : clock' = now
    /\ tpc' = "returned"
    /\ UNCHANGED <<timeoutSeconds, checkCounter>>
    /\ timeoutRest

TimeoutNext == TimeoutCheck \/ TimeoutThrow \/ TimeoutSolveReturns

\* TimeoutManager tm(seconds), as main constructs it before a solve
TimeoutInit ==
    /\ timeoutSeconds \in 0..TMaxTimeout
    /\ checkCounter = 0
    /\ clock = 0
    /\ tpc = "running"
    /\ engine = "none" /\ numVars = 0 /\ clauses = <<>>
    /\ values = <<>> /\ trail = <<>> /\ activity = <<>> /\ varInc = 1
    /\ conflicts = 0 /\ decisions = 0 /\ watches = <<>> /\ stack = <<>>
    /\ maxDecisions = 0 /\ restarts = <<>>
    /\ pc = "off" /\ result = FALSE /\ exitPath = "none"
    /\ round = 0 /\ firstResult = FALSE /\ firstExit = "none"
    /\ lastCall = NoCall
    /\ ParserOff
    /\ ReducerOff
    /\ VerifierOff

\* one solve under a TimeoutManager
SpecTimeout == TimeoutInit /\ [][TimeoutNext]_vars

(***************************************************************************)
(* CNFParser::parse, the same loop in the two solvers, the reducer and the *)
(* verifier: getline returns the lines of the file one by one, and each    *)
(* line is handled on its own.  A line of the model is what the code sees  *)
(* of it: its first character (kind) and the integers operator>> reads.    *)
(***************************************************************************)
PMaxLines == 2
PMaxTokens == 4
PMaxVar == 1

\* what iss >> lit can read on a clause line: a literal or the terminator 0
Tokens == (0 - PMaxVar)..PMaxVar

\* the lines a file is made of: an empty line, a comment, the header
\* "p cnf N M" (tokens <<N, M>>), or a line of integers
Lines ==
    {[kind |-> "empty", tokens |-> <<>>], [kind |-> "comment", tokens |-> <<>>]}
    \cup {[kind |-> "header", tokens |-> <<PMaxVar, m>>] : m \in {1}}
    \cup {[kind |-> "integers", tokens |-> t] :
             t \in UNION {[1..k -> Tokens] : k \in 1..PMaxTokens}}

\* files of comment, header and integer lines, header before the clauses
Files == UNION {[1..k -> Lines] : k \in 0..PMaxLines}

\* while (iss >> lit && lit != 0) literals.push_back(lit): the literals of
\* the line from token i up to its first 0 or its end
RECURSIVE readLiterals(_, _)
readLiterals(tokens, i) ==
    IF i > Len(tokens) \/ tokens[i] = 0 THEN <<>>
    ELSE <<tokens[i]>> \o readLiterals(tokens, i + 1)

\* the body of the while (getline(file, line)) loop for one line
parseLine(formula, line) ==
    IF line.kind \in {"empty", "comment"} THEN formula
    ELSE IF line.kind = "header"
    THEN [formula EXCEPT !.numVars = line.tokens[1]]
    ELSE LET literals == readLiterals(line.tokens, 1)
         IN  IF literals # <<>>
             THEN [formula EXCEPT !.clauses = Append(@, literals)]
             ELSE formula

parserRest ==
    UNCHANGED <<solverVars, reducerVars, converterVars, historyVars,
                verifierVars, apiVars, timeoutVars>>

\* getline returns the next line and the loop body handles it
ParseLine ==
    /\ ppc = "lines" /\ ppos < Len(file)
    /\ ppos' = ppos + 1
    /\ parsed' = parseLine(parsed, file[ppos + 1])
    /\ UNCHANGED <<file, ppc>>
    /\ parserRest

\* getline fails at the end of the file: return {clauses, numVars}
ParseReturn ==
    /\ ppc = "lines" /\ ppos = Len(file)
    /\ ppc' = "done"
    /\ UNCHANGED <<file, ppos, parsed>>
    /\ parserRest

ParseNext == ParseLine \/ ParseReturn

\* parse(filename) on an open file, no solver constructed yet
ParseInit ==
    /\ file \in Files
    /\ ppos = 0
    /\ parsed = [numVars |-> 0, clauses |-> <<>>]
    /\ ppc = "lines"
    /\ engine = "none" /\ numVars = 0 /\ clauses = <<>>
    /\ values = <<>> /\ trail = <<>> /\ activity = <<>> /\ varInc = 1
    /\ conflicts = 0 /\ decisions = 0 /\ watches = <<>> /\ stack = <<>>
    /\ maxDecisions = 0 /\ restarts = <<>>
    /\ pc = "off" /\ result = FALSE /\ exitPath = "none"
    /\ round = 0 /\ firstResult = FALSE /\ firstExit = "none"
    /\ lastCall = NoCall
    /\ TimeoutOff
    /\ ReducerOff
    /\ VerifierOff

SpecParse == ParseInit /\ [][ParseNext]_vars

(***************************************************************************)
(* Properties of the search engines and of the reduction.                  *)
(***************************************************************************)
\* the assignment vals makes a literal of every clause of cls true
Models(vals, cls) ==
    \A i \in DOMAIN cls : \E j \in DOMAIN cls[i] :
        \/ cls[i][j] > 0 /\ vals[cls[i][j]] = 1
        \/ cls[i][j] < 0 /\ vals[-cls[i][j]] = 0

\* some assignment of the variables 1..n satisfies every clause of cls
Satisfiable(cls, n) == \E A \in [1..n -> {0, 1}] : Models(A, cls)

Total(vals, n) == \A v \in 1..n : vals[v] \in {0, 1}

Returned == pc = "done"

\* CNFParser::parse keeps a clause only if it has a literal
ParserProducible(cls) == \A i \in DOMAIN cls : cls[i] # <<>>

\* C1: whenever an engine returns SAT, the returned assignment makes a
\* literal of every clause true.  Stated for the formulas a DIMACS file can
\* hold (no empty clause), where the claim has to hold a fortiori.
C1_SatVerdictIsVerified ==
    (Returned /\ result /\ ParserProducible(clauses)) =>
        Models(values, clauses)

\* C2 as stated: whenever any engine returns SAT, every variable of 1..N is
\* set in the returned assignment.
C2_SatAssignmentTotal ==
    (Returned /\ result) => Total(values, numVars)

\* C2 amended: whenever a CDCL variant returns SAT, every variable of 1..N
\* is set in the returned assignment.
C2_CdclSatAssignmentTotal ==
    (Returned /\ result /\ engine \in CdclEngines) => Total(values, numVars)

\* a CDCL variant returned SAT on a two-variable formula after propagating
C2_Witness ==
    /\ Returned /\ result /\ engine \in CdclEngines
    /\ numVars = 2 /\ clauses # <<>>
    /\ \E v \in 1..numVars : activity[v] > 0

\* C3: the Naive and MOMS engines return UNSAT exactly when no assignment
\* of the N variables satisfies every clause, and SAT otherwise.
C3_DpllDecides ==
    (Returned /\ engine \in DpllEngines) =>
        (result <=> Satisfiable(clauses, numVars))

\* a MOMS engine returned UNSAT, after branching, on a formula of nonempty
\* clauses over two variables
C3_Witness ==
    /\ Returned /\ ~result /\ engine \in {"moms2", "momsOver"}
    /\ numVars = 2 /\ trail # <<>>
    /\ \A i \in DOMAIN clauses : clauses[i] # <<>>

\* C4: on a satisfiable formula without repeated literals, a CDCL variant
\* that does not stop on the decision cap returns SAT.
C4_CdclFindsSat ==
    (/\ Returned /\ engine \in CdclEngines /\ exitPath # "cap"
     /\ NoDuplicates(clauses) /\ Satisfiable(clauses, numVars)) => result

\* C5: a CDCL variant returns UNSAT only from the conflict branch, with a
\* trail of at most one entry.
C5_UnsatOnlyFromConflict ==
    (Returned /\ engine \in CdclEngines /\ ~result) =>
        (exitPath = "conflict" /\ Len(trail) <= 1)

\* C6: the verdict of an engine on a formula with a repeated literal equals
\* its verdict on the formula with the repetitions removed (runs ended by
\* the decision cap aside).
C6_DuplicateLiteralsSameVerdict ==
    (Returned /\ round = 2 /\ exitPath # "cap" /\ firstExit # "cap") =>
        (result = firstResult)

\* the reducer returned
Reduced == rpc \in {"done", "converted"}

hasEmptyClause(cls) == \E i \in DOMAIN cls : cls[i] = <<>>

\* C7: the input of reduce is satisfiable if and only if its output is.
C7_Equisatisfiable ==
    Reduced =>
        (Satisfiable(original.clauses, original.numVars)
            <=> Satisfiable(reduced, stats.reducedVars))

\* C8: an assignment that satisfies the reduced formula, cut down by
\* convertSolution to the original variables, satisfies every clause of
\* the input formula.
C8_ProjectionSatisfiesOriginal ==
    rpc = "converted" =>
        Models(parseSolution(solutionSAT, original.numVars), original.clauses)

\* C9: every clause of the reduced formula has exactly three literals,
\* unless it is empty and the input had an empty clause, and every literal
\* of the reduced formula has its variable in 1..reducedVars.
C9_ThreeLiteralsInRange ==
    Reduced =>
        \A i \in DOMAIN reduced :
            /\ \/ Len(reduced[i]) = 3
               \/ reduced[i] = <<>> /\ hasEmptyClause(original.clauses)
            /\ \A j \in DOMAIN reduced[i] :
                  Abs(reduced[i][j]) \in 1..stats.reducedVars

\* reduce returned after turning a clause of five literals into a chain of
\* three clauses over two auxiliary variables
C9_Witness ==
    /\ rpc = "done"
    /\ \E i \in DOMAIN original.clauses : Len(original.clauses[i]) = 5
    /\ stats.auxVarsAdded = 2
    /\ Len(reduced) = 3

\* C10: if the input of reduce has an empty clause, its output has an
\* empty clause, and so is unsatisfiable.
C10_EmptyClausePreserved ==
    (Reduced /\ hasEmptyClause(original.clauses)) =>
        (hasEmptyClause(reduced) /\ ~Satisfiable(reduced, stats.reducedVars))

\* C11 as stated: the reduction adds at most L variables and produces at
\* most L clauses, L being the number of literals of the input.
C11_BoundedByLiterals ==
    Reduced =>
        /\ stats.reducedVars - stats.originalVars <= stats.totalLiteralsOriginal
        /\ stats.reducedClauses <= stats.totalLiteralsOriginal

\* C11 amended: the reduction adds at most 2L variables and produces at
\* most 4L clauses, L being the number of literals of the input.
C11_BoundedByTwiceAndFourTimes ==
    Reduced =>
        /\ stats.reducedVars - stats.originalVars
              <= 2 * stats.totalLiteralsOriginal
        /\ stats.reducedClauses <= 4 * stats.totalLiteralsOriginal

\* reduce returned on a formula of unit clauses, where both bounds are met
C11_Witness ==
    /\ rpc = "done"
    /\ stats.totalLiteralsOriginal >= 2
    /\ stats.auxVarsAdded = 2 * stats.totalLiteralsOriginal
    /\ stats.reducedClauses = 4 * stats.totalLiteralsOriginal

\* the chain (x1 x2 y1), (-y_i x_{i+2} y_{i+1}), (-y_{k-3} x_{k-1} x_k) for the
\* clause x and the auxiliary variables y_i = c + i - 1
Chain(x, c) ==
    LET k == Len(x)
        y(i) == c + i - 1
    IN  [j \in 1..(k - 2) |->
            IF j = 1 THEN <<x[1], x[2], y(1)>>
            ELSE IF j = k - 2 THEN <<-y(k - 3), x[k - 1], x[k]>>
            ELSE <<-y(j - 1), x[j + 1], y(j)>>]

\* C12: for a clause of k >= 4 literals reduce appends exactly the chain of
\* k-2 clauses over k-3 consecutive fresh variables; (1 2 3 4 5) with the
\* counter at 6 gives (1 2 6), (-6 3 7), (-7 4 5).
C12_ChainForLongClause ==
    /\ reduceSizeK(<<1, 2, 3, 4, 5>>, 6).clauses
          = << <<1, 2, 6>>, <<-6, 3, 7>>, <<-7, 4, 5>> >>
    /\ [][ReduceSizeK =>
            /\ reduced' = reduced \o Chain(RClause, nextAuxVar)
            /\ Len(reduced') = Len(reduced) + Len(RClause) - 2
            /\ nextAuxVar' = nextAuxVar + Len(RClause) - 3]_vars

\* reduce went past a clause of five literals, the first clause of its input
C12_Witness ==
    /\ rpc = "clauses" /\ rpos = 2
    /\ Len(original.clauses[1]) = 5
    /\ Len(reduced) = 3

\* the variable v occurs neither in the input nor in the clauses emitted so far
Fresh(v) ==
    /\ v > original.numVars
    /\ \A i \in DOMAIN reduced : \A j \in DOMAIN reduced[i] :
          Abs(reduced[i][j]) # v

\* C13: a unit clause (x) becomes (x y z), (x y -z), (x -y z), (x -y -z)
\* with two fresh variables y < z, a binary clause (a b) becomes (a b y),
\* (a b -y) with one fresh variable, and a clause of three literals is
\* copied with no fresh variable.
C13_ShortClausesPadded ==
    [][/\ ReduceSize1 =>
            LET x == RClause[1]
                y == nextAuxVar
                z == nextAuxVar + 1
            IN  /\ Fresh(y) /\ Fresh(z)
                /\ reduced' = reduced \o << <<x, y, z>>, <<x, y, -z>>,
                                            <<x, -y, z>>, <<x, -y, -z>> >>
                /\ nextAuxVar' = nextAuxVar + 2
       /\ ReduceSize2 =>
            LET a == RClause[1]
                b == RClause[2]
                y == nextAuxVar
            IN  /\ Fresh(y)
                /\ reduced' = reduced \o << <<a, b, y>>, <<a, b, -y>> >>
                /\ nextAuxVar' = nextAuxVar + 1
       /\ ReduceSize3 =>
            /\ reduced' = Append(reduced, RClause)
            /\ nextAuxVar' = nextAuxVar]_vars

\* reduce returned on a formula made of a binary clause and a unit clause
C13_Witness ==
    /\ rpc = "done"
    /\ Len(original.clauses) = 2
    /\ Len(original.clauses[1]) = 2 /\ Len(original.clauses[2]) = 1
    /\ Len(reduced) = 6 /\ stats.auxVarsAdded = 3

\* the number of variables reduce has to mint for the clauses cls
RECURSIVE Minted(_)
Minted(cls) ==
    IF cls = <<>> THEN 0
    ELSE LET k == Len(Head(cls))
         IN  (IF k = 1 THEN 2 ELSE IF k = 2 THEN 1
              ELSE IF k >= 4 THEN k - 3 ELSE 0) + Minted(Tail(cls))

\* C14: in every call of reduce the counter starts at N+1 and has grown by
\* one for each variable minted for the clauses met so far, reducedVars is
\* N + auxVarsAdded, and the third call of a reducer object returns on the
\* formula of its first call what the first call returned.
C14_CounterRestartsEachCall ==
    /\ rpc = "clauses" =>
          nextAuxVar = original.numVars + 1
                         + Minted(SubSeq(original.clauses, 1, rpos - 1))
    /\ rpc = "done" =>
          /\ stats.reducedVars = original.numVars + stats.auxVarsAdded
          /\ stats.auxVarsAdded = Minted(original.clauses)
    /\ (rpc = "done" /\ rcall = 3) =>
          firstOutput = [numVars |-> stats.reducedVars, clauses |-> reduced]

\* the third call returned; the first and the second call had minted
\* variables, for formulas of different declared variable counts
C14_Witness ==
    /\ rpc = "done" /\ rcall = 3
    /\ Minted(previous[1].clauses) > 0
    /\ Minted(previous[2].clauses) > 0
    /\ previous[1].numVars # previous[2].numVars

\* verify returned
Verified == vpc = "done"

\* the clause has a literal whose variable the vector asg sets to the
\* literal's polarity
HasTrueLiteral(clause, asg) ==
    \E j \in DOMAIN clause :
        /\ Abs(clause[j]) \in DOMAIN asg
        /\ asg[Abs(clause[j])] = IF clause[j] > 0 THEN 1 ELSE 0

\* the indices, counted from 0, of the clauses without a true literal
Falsified ==
    {i - 1 : i \in {k \in DOMAIN instance.clauses :
                       ~HasTrueLiteral(instance.clauses[k], solution)}}

\* C15: verify returns true if and only if every clause of the instance
\* has a literal whose variable is set to the literal's polarity; unset and
\* out-of-range literals do not satisfy a clause.
C15_VerdictIffEveryClauseTrue ==
    Verified => (isSat <=> Falsified = {})

\* verify rejected an instance one clause of which has no false literal:
\* all its literals are unset or out of range
C15_Witness ==
    /\ Verified /\ ~isSat
    /\ \E i \in DOMAIN instance.clauses :
          /\ \E j \in DOMAIN instance.clauses[i] :
                Abs(instance.clauses[i][j]) > instance.numVars
          /\ \E j \in DOMAIN instance.clauses[i] :
                /\ Abs(instance.clauses[i][j]) <= instance.numVars
                /\ solution[Abs(instance.clauses[i][j])] = -1

\* C16: the list of falsified clause indices never holds more than 10
\* entries, and its entries are the lowest-indexed falsified clauses in
\* increasing order.
C16_AtMostTenLowestIndices ==
    /\ Len(unsatisfiedIndices) <= 10
    /\ \A a, b \in DOMAIN unsatisfiedIndices :
          a < b => unsatisfiedIndices[a] < unsatisfiedIndices[b]
    /\ \A a \in DOMAIN unsatisfiedIndices :
          /\ unsatisfiedIndices[a] \in Falsified
          /\ \A i \in Falsified :
                i < unsatisfiedIndices[a] =>
                    \E b \in DOMAIN unsatisfiedIndices :
                        unsatisfiedIndices[b] = i

TotalSolution == \A v \in DOMAIN solution : solution[v] \in {0, 1}

Reported == {unsatisfiedIndices[a] : a \in DOMAIN unsatisfiedIndices}

\* C17 as stated: under a total assignment, every falsified clause has its
\* index in the list verify built.
C17_EveryFalsifiedReported ==
    (Verified /\ TotalSolution) => Falsified \subseteq Reported

\* C17 amended: under a total assignment with a falsified clause, verify
\* returns false and lists the lowest-indexed falsified clause, and it
\* lists every falsified clause when there are at most ten of them.
C17_FalsifiedReportedUpToTen ==
    (Verified /\ TotalSolution /\ Falsified # {}) =>
        /\ ~isSat
        /\ \E i \in Reported : \A k \in Falsified : i <= k
        /\ Cardinality(Falsified) <= 10 => Falsified \subseteq Reported

\* verify returned on a total assignment that falsifies ten clauses, not
\* all of them in a row
C17_Witness ==
    /\ Verified /\ TotalSolution
    /\ Cardinality(Falsified) = 10
    /\ satisfiedClauses >= 1
    /\ \E i \in Falsified : i > 10

\* the variables on the trail tr
OnTrail(tr) == {tr[i] : i \in DOMAIN tr}

\* C18: at every point of every engine's run (on a formula a DIMACS file
\* can hold), every variable appears at most once on the trail, and a
\* variable is set if and only if it is on the trail.
C18_TrailInvariants ==
    ParserProducible(clauses) =>
        /\ \A i, j \in DOMAIN trail : i # j => trail[i] # trail[j]
        /\ \A v \in 1..numVars : values[v] # -1 <=> v \in OnTrail(trail)

\* backtrackTo(k) on the assignment a, for every k up to its trail length:
\* the trail becomes its first k entries, their variables keep their
\* values, the popped variables are unset
BacktrackFrame(a) ==
    \A k \in 0..Len(a.trail) :
        LET b == backtrackTo(a, k)
        IN  /\ Len(b.trail) = k
            /\ b.trail = SubSeq(a.trail, 1, k)
            /\ \A i \in 1..k : b.values[a.trail[i]] = a.values[a.trail[i]]
            /\ \A i \in (k + 1)..Len(a.trail) : b.values[a.trail[i]] = -1

AssignedUnset ==
    /\ values = [lastCall.before.values EXCEPT
                    ![lastCall.var] = IF lastCall.value THEN 1 ELSE 0]
    /\ trail = Append(lastCall.before.trail, lastCall.var)

WasSet == lastCall.before.values[lastCall.var] # -1

C21_TimeoutOnlyOnSampledCall ==
    /\ tpc = "timeout" =>
          checkCounter >= SampleStride /\ checkCounter % SampleStride = 0
    /\ checkCounter < SampleStride => tpc # "timeout"
    /\ (checkCounter > 0 /\ checkCounter % SampleStride = 0
        /\ tpc \in {"running", "timeout"}) =>
          (tpc = "timeout" <=> clock \div TicksPerSecond > timeoutSeconds)

\* a solve has made more than 10,000 calls of check, the deadline is long
\* exceeded, and it goes on: the next sampling call is the 20,000th
C21_Witness ==
    /\ tpc = "running"
    /\ checkCounter > SampleStride /\ checkCounter < 2 * SampleStride
    /\ clock \div TicksPerSecond > timeoutSeconds

(***************************************************************************)
(* Properties of the engines on the scenarios of the specification.        *)
(***************************************************************************)
\* p cnf 1 2 / 1 0 / -1 0
TrivialConflict == << <<1>>, <<-1>> >>

\* C22: on the formula with N = 1 and the two clauses (1) and (-1), every
\* engine (Naive, MOMS, re-scan CDCL, watched-literal CDCL) returns UNSAT.
C22_TrivialConflictUnsat ==
    (Returned /\ numVars = 1 /\ clauses = TrivialConflict) => ~result

\* the watched-literal CDCL has returned from its conflict branch on that
\* formula, after one decision
C22_Witness ==
    /\ Returned /\ numVars = 1 /\ clauses = TrivialConflict
    /\ engine = "cdclOver" /\ exitPath = "conflict" /\ Len(trail) = 1

(***************************************************************************)
(* Properties of the main loop of FastCDCLSolver::solve.                   *)
(***************************************************************************)
\* an iteration that takes the conflict branch with a trail longer than one
\* entry and does not restart
ConflictWithoutRestart ==
    CdclConflictBacktrack /\ ~restartDue(engine, conflicts + 1)

\* the first n entries of the trail the propagation left
KeptPrefix(n) == SubSeq(Propagated.trail, 1, n)

\* C23 as stated: in both CDCL variants, a conflict with a trail of length
\* L > 1 pops the trail down to length floor(L / 2), before any restart.
C23_ConflictHalvesTrail ==
    [][ConflictWithoutRestart =>
          trail' = KeptPrefix(Len(Propagated.trail) \div 2)]_vars

\* C23 amended: a conflict with a trail of length L > 1 pops the trail down
\* to length floor(L / 2) in the watched-literal variant and down to length
\* max(0, L - 5) in the re-scan variant, before any restart.
C23_ConflictHalvesOrPopsFive ==
    [][ConflictWithoutRestart =>
          LET L == Len(Propagated.trail)
          IN  trail' = KeptPrefix(IF engine = "cdclOver" THEN L \div 2
                                  ELSE IF L > 5 THEN L - 5 ELSE 0)]_vars

\* the watched-literal variant has halved a trail of two entries on its
\* first conflict, in its third iteration
C23_Witness ==
    /\ engine = "cdclOver" /\ pc = "loop"
    /\ conflicts = 1 /\ decisions = 3 /\ Len(trail) = 1

\* the re-scan variant has popped five of six trail entries on a conflict
C23_WitnessPopsFive ==
    /\ engine = "cdcl2" /\ pc = "loop" /\ numVars = DeepVars
    /\ conflicts = 1 /\ Len(trail) = DeepVars - 5

\* C24: in the re-scan variant a restart (trail unwound to length 0,
\* conflict counter reset to 0, activities kept) fires when conflicts
\* exceeds 200 * (1 + conflicts / 1000), and the conflict count at which
\* restarts fire increases over a solve: each restart fires at a greater
\* count than the restarts before it.
C24_RestartThresholdEnlarges ==
    [][(engine = "cdcl2" /\ CdclConflictBacktrack) =>
          LET c     == conflicts + 1
              fired == conflicts' = 0
          IN  /\ fired <=> c > 200 * (1 + c \div 1000)
              /\ fired => trail' = <<>> /\ activity' = Propagated.activity
              /\ fired => \A i \in DOMAIN restarts : restarts[i] < c]_vars

\* an iteration whose propagation reports no conflict and leaves every
\* variable set and some clause without a true literal
TotalityCheckFails ==
    /\ CdclNext /\ InLoop
    /\ ~Propagated.conflict
    /\ Total(Propagated.values, numVars)
    /\ ~Models(Propagated.values, clauses)

\* C25: in both CDCL variants, when every variable is set and the full
\* re-verification finds a clause that is not satisfied, solve does not
\* return SAT: it backtracks the trail to half its length and continues the
\* main loop.  Stated for the formulas a DIMACS file can hold.
C25_FailedRecheckBacktracks ==
    [][(TotalityCheckFails /\ ParserProducible(clauses)) =>
          /\ ~(pc' = "done" /\ result')
          /\ pc' = "loop"
          /\ trail' = KeptPrefix(Len(Propagated.trail) \div 2)]_vars

\* the unset variables of the assignment the propagation left
UnsetAfterPropagation ==
    {v \in 1..numVars : Propagated.values[v] = -1}

\* C26: whenever at least one variable of 1..N is unset, selectVariable
\* returns an unset variable whose activity is maximal among the unset
\* variables, and of the unset variables of that activity the one with the
\* lowest index; it never returns a set variable.
C26_SelectsMaxActivityLowestIndex ==
    (InLoop /\ ~Propagated.conflict /\ UnsetAfterPropagation # {}) =>
        LET act == Propagated.activity
            var == selectVariable(Propagated.values, act, numVars)
        IN  /\ var \in UnsetAfterPropagation
            /\ \A k \in UnsetAfterPropagation : act[k] <= act[var]
            /\ \A k \in UnsetAfterPropagation : act[k] = act[var] => var <= k

\* a decision is due with both variables unset, the second one of greater
\* activity than the first
C26_Witness ==
    /\ InLoop /\ ~Propagated.conflict /\ numVars = 2
    /\ UnsetAfterPropagation = {1, 2}
    /\ Propagated.activity[2] > Propagated.activity[1]

\* a decision is due with both variables unset and of equal activity
C26_WitnessTie ==
    /\ InLoop /\ ~Propagated.conflict /\ numVars = 2
    /\ UnsetAfterPropagation = {1, 2}
    /\ Propagated.activity[2] = Propagated.activity[1]

(***************************************************************************)
(* Properties of the propagation.                                          *)
(***************************************************************************)
\* no literal of the clause is true under vals
Unsatisfied(clause, vals) ==
    \A j \in DOMAIN clause : ~LitTrue(vals, clause[j])

\* the positions of the clause whose variable is unset
UnsetPositions(clause, vals) ==
    {j \in DOMAIN clause : vals[LitVar(clause[j])] = -1}

\* every literal of the clause is false under vals
FalsifiedBy(clause, vals) ==
    Unsatisfied(clause, vals) /\ UnsetPositions(clause, vals) = {}

\* the clause has no true literal and exactly one unset one
UnitUnder(clause, vals) ==
    Unsatisfied(clause, vals) /\ Cardinality(UnsetPositions(clause, vals)) = 1

\* C27: whenever the propagation of either CDCL variant returns
\* "consistent", no clause of the formula has all its literals false and
\* no unsatisfied clause has exactly one unset literal under the assignment
\* it leaves.  Stated for the formulas a DIMACS file can hold.
C27_ConsistentIsFixedPoint ==
    (InLoop /\ ~Propagated.conflict /\ ParserProducible(clauses)) =>
        \A i \in DOMAIN clauses :
            /\ ~FalsifiedBy(clauses[i], Propagated.values)
            /\ ~UnitUnder(clauses[i], Propagated.values)

(***************************************************************************)
(* Properties of the recursion of NaiveSolver and MOMSSolver.              *)
(***************************************************************************)
\* the frame of the dpll call whose recursive call has just returned
TopFrame == stack[Len(stack)]

\* C28: in the Naive and MOMS recursion each branch tries the value true
\* first and then false, and on failure unsets exactly the variable it
\* assigned: whenever a dpll call returns false, the value of every variable
\* is the same as at the entry of that call.
C28_FailedBranchRestoresValues ==
    [][/\ DpllBranchTrue =>
             /\ stack'[Len(stack')].entry = values
             /\ values' = [values EXCEPT ![stack'[Len(stack')].var] = 1]
       /\ DpllRetryFalse =>
             values' = [TopFrame.entry EXCEPT ![TopFrame.var] = 0]
       /\ DpllReturnFalse => values' = TopFrame.entry
       /\ DpllNoVar => values' = values
       /\ DpllUnsat => values' = [v \in 1..numVars |-> -1]]_vars

\* a dpll engine has returned UNSAT on a two-variable formula after trying
\* both values of both variables: six assignments made, nothing left set
C28_Witness ==
    /\ Returned /\ ~result /\ engine \in DpllEngines
    /\ numVars = 2 /\ Len(trail) = 6
    /\ \A v \in 1..numVars : values[v] = -1

(***************************************************************************)
(* Termination of FastCDCLSolver::solve.                                   *)
(***************************************************************************)
\* the propagation called on the current assignment sets each variable at
\* most once and unsets none: the trail it leaves extends the trail it was
\* given by distinct variables that were unset, and no value that was set
\* has changed
PropagationOnlySets ==
    LET r   == Propagated
        new == Len(trail) + 1 .. Len(r.trail)
    IN  /\ Len(r.trail) >= Len(trail)
        /\ SubSeq(r.trail, 1, Len(trail)) = trail
        /\ \A v \in 1..numVars : values[v] # -1 => r.values[v] = values[v]
        /\ \A i \in new : values[r.trail[i]] = -1 /\ r.values[r.trail[i]] # -1
        /\ \A i, j \in new : i # j => r.trail[i] # r.trail[j]

\* C29: every CDCL solve terminates: each iteration of the main loop
\* (conflict, totality check or decision) increases the decision counter,
\* the counter never exceeds the cap, so the loop ends after at most
\* max_decisions iterations, and each call of propagate / unitPropagation
\* sets each variable at most once and unsets none.
C29_CdclSolveTerminates ==
    /\ <>Returned
    /\ [][(CdclNext /\ InLoop) => decisions' = decisions + 1]_vars
    /\ [](decisions <= maxDecisions)
    /\ [](InLoop => PropagationOnlySets)

\* a solve has ended on the cap, after max_decisions iterations
C29_Witness ==
    /\ Returned /\ engine \in CdclEngines
    /\ exitPath = "cap" /\ decisions = maxDecisions /\ conflicts > 0

(***************************************************************************)
(* C30: clauses end at 0, not at the newline                               *)
(***************************************************************************)
\* the integers of the file in reading order, the line breaks forgotten
RECURSIVE TokenStream(_, _)
TokenStream(lines, i) ==
    IF i > Len(lines) THEN <<>>
    ELSE (IF lines[i].kind = "integers" THEN lines[i].tokens ELSE <<>>)
         \o TokenStream(lines, i + 1)

\* the clauses of a token stream: cut after each 0; open is the clause
\* being read
RECURSIVE SplitAtZero(_, _, _)
SplitAtZero(stream, i, open) ==
    IF i > Len(stream) THEN <<>>
    ELSE IF stream[i] = 0
         THEN <<open>> \o SplitAtZero(stream, i + 1, <<>>)
         ELSE SplitAtZero(stream, i + 1, Append(open, stream[i]))

\* a file of 0-terminated clauses with a literal each: the stream is empty
\* or ends with 0, and no 0 opens the stream or follows another 0
WellFormedStream(stream) ==
    /\ stream # <<>> => stream[Len(stream)] = 0
    /\ \A i \in DOMAIN stream :
          stream[i] = 0 => (i > 1 /\ stream[i - 1] # 0)

WellFormedFile == WellFormedStream(TokenStream(file, 1))

\* C30: when parse returns on a file of 0-terminated nonempty clauses, the
\* parsed clause list is the token stream of the file split at each 0,
\* wherever the line breaks are
C30_ClausesSplitAtZero ==
    (ppc = "done" /\ WellFormedFile) =>
        parsed.clauses = SplitAtZero(TokenStream(file, 1), 1, <<>>)

====
